---------------------------- MODULE Spec2Model ----------------------------
(***************************************************************************)
(* BerlinUhr (src/BerlinUhr.ino): the time-keeping core of the clock.      *)
(*                                                                         *)
(*  - calendar math: gmtime, mktime's weekday, lastSunday, isDstEurope,    *)
(*    getUtcOffsetSeconds, getDisplayTime                                  *)
(*  - the resync scheduler: scheduleNextNightlySync, shouldStartNightlySync*)
(*  - the internal clock: syncRtcFromSystemTime, getCurrentRtcTime         *)
(*  - loop(): the three-state session machine, with superviseWiFi         *)
(*                                                                         *)
(* Three specifications share the variables:                               *)
(*   SpecCal    the pure calendar functions applied to bounded inputs      *)
(*   SpecSched  the scheduler's two functions over nextNtpSyncEpoch        *)
(*   Spec       loop(), one action per case of its switch                  *)
(*                                                                         *)
(* unsigned long is 32 bits wide on the ESP8266.  A tick is kept as the    *)
(* pair <<high 16 bits, low 16 bits>> so that the arithmetic modulo 2^32   *)
(* is exact while every intermediate number stays below 2^31.              *)
(* Brightness (LDR) handling and the colours of the LEDs are left out:     *)
(* they neither read nor write the state modelled here.                    *)
(***************************************************************************)
EXTENDS Integers, Sequences, FiniteSets, TLC

VARIABLES
  myState,            \* ClockState_t myState
  rtcBaseTime,        \* time_t rtcBaseTime (UTC epoch, 0 = never set)
  rtcBaseMillis,      \* unsigned long rtcBaseMillis
  nextNtpSyncEpoch,   \* time_t nextNtpSyncEpoch (0 = unset)
  ntpSyncInProgress,  \* bool ntpSyncInProgress
  ntpSyncStartMs,     \* unsigned long ntpSyncStartMs
  wifiLostSinceMs,    \* unsigned long wifiLostSinceMs (0 = not lost)
  lastRenderMillis,   \* unsigned long lastRenderMillis
  t_hour, t_min, t_sec, \* volatile int t_hour, t_min, t_sec
  strip,              \* what the LED strip shows: "off", "rainbow" or "clock"
  millis,             \* the platform's millis() counter
  sysTime,            \* the platform's time(nullptr)
  wifiConnected,      \* WiFi.status() == WL_CONNECTED
  fetchDone,          \* the fetch the latest startNtp() requested has delivered
  cyc,                \* what the last loop() cycle did (observation only)
  absence,            \* the run of disconnected observations (observation only)
  arg,                \* SpecCal, SpecSched: the argument of the next call
  call                \* SpecCal, SpecSched: the last call and what it returned

vars == << myState, rtcBaseTime, rtcBaseMillis, nextNtpSyncEpoch,
           ntpSyncInProgress, ntpSyncStartMs, wifiLostSinceMs,
           lastRenderMillis, t_hour, t_min, t_sec, strip, millis, sysTime,
           wifiConnected, fetchDone, cyc, absence, arg, call >>

-----------------------------------------------------------------------------
(* Program constants *)

ntpSyncHour == 3
ntpSyncMinute == 5
ntpWaitTimeoutMs == 20000
wifiLostTimeoutMs == 60000
renderIntervalMs == 20
TimeFloor == 1451606400
maxMinutes == 48 * 60

-----------------------------------------------------------------------------
(* Bounds of the model *)

FirstYear == 2024       \* SpecCal: the years whose every hour is an input
LastYear == 2026
SchedHours == 51        \* SpecSched: hours of inputs after each anchor
MaxCycles == 5          \* Spec: loop() cycles in a behaviour
YearMargin == 4         \* SpecSunday: years before FirstYear and after LastYear

-----------------------------------------------------------------------------
(* 32-bit unsigned arithmetic on <<hi, lo>> pairs of 16-bit halves *)

U32(n) == << n \div 65536, n % 65536 >>          \* a literal below 2^31

Add32(a, b) ==
  LET lo == a[2] + b[2]
  IN  << (a[1] + b[1] + (lo \div 65536)) % 65536, lo % 65536 >>

\* a - b as the C expression on unsigned long computes it (modulo 2^32)
Sub32(a, b) ==
  LET lo == a[2] - b[2] + 65536
      borrow == IF lo < 65536 THEN 1 ELSE 0
  IN  << (a[1] - b[1] - borrow + 65536) % 65536, lo % 65536 >>

Gt32(a, b) == a[1] > b[1] \/ (a[1] = b[1] /\ a[2] > b[2])
Ge32(a, b) == a[1] > b[1] \/ (a[1] = b[1] /\ a[2] >= b[2])

\* a / 1000 (65536 = 65 * 1000 + 536)
DivThousand32(a) == a[1] * 65 + ((a[1] * 536 + a[2]) \div 1000)

-----------------------------------------------------------------------------
(* The C library's calendar conversions, as newlib computes them *)

\* gmtime(): the time-of-day fields
tm_hour(t) == (t % 86400) \div 3600
tm_min(t)  == ((t % 86400) % 3600) \div 60
tm_sec(t)  == (t % 86400) % 60

\* gmtime(): the date fields, from the count of days since 0000-03-01 in
\* 400-year eras.  Each step of the computation is an operator of its own;
\* year and month are given as the callers use them (tm_year + 1900,
\* tm_mon + 1), wday is tm_wday (0 = Sunday).
DateFromMonth(days, era, erayear, yearday, mp) ==
  [ year  |-> erayear + era * 400 + (IF mp >= 10 THEN 1 ELSE 0),
    month |-> IF mp < 10 THEN mp + 3 ELSE mp - 9,
    day   |-> yearday - ((153 * mp + 2) \div 5) + 1,
    wday  |-> (3 + days) % 7 ]

DateFromYearDay(days, era, erayear, yearday) ==
  DateFromMonth(days, era, erayear, yearday, (5 * yearday + 2) \div 153)

DateFromEraYear(days, era, eraday, erayear) ==
  DateFromYearDay(days, era, erayear,
    eraday - (365 * erayear + (erayear \div 4) - (erayear \div 100)))

DateFromEraDay(days, era, eraday) ==
  DateFromEraYear(days, era, eraday,
    (eraday - (eraday \div 1460) + (eraday \div 36524)
            - (eraday \div 146096)) \div 365)

DateFromDays(days) ==
  DateFromEraDay(days, days \div 146097, days % 146097)

gmtime_date(t) == DateFromDays((t \div 86400) + 719468)

IsLeapYear(y) == (y % 4 = 0 /\ y % 100 # 0) \/ y % 400 = 0

\* days of the year before the first of month m (1..12), not counting a leap day
DaysBeforeMonth(m) ==
  << 0, 31, 59, 90, 120, 151, 181, 212, 243, 273, 304, 334 >>[m]

\* days from 1970-01-01 to January 1st of year y (the sum mktime loops over)
DaysBeforeYear(y) ==
  365 * (y - 1970)
  + (((y - 1) \div 4) - ((y - 1) \div 100) + ((y - 1) \div 400)) - 477

\* mktime(): the day count of year/month/mday since 1970-01-01.  A day
\* past the end of the month counts on into the next one (mktime
\* normalises the structure), so April 31st is May 1st.
mktime_days(year, month, mday) ==
  DaysBeforeYear(year) + DaysBeforeMonth(month)
  + (IF month > 2 /\ IsLeapYear(year) THEN 1 ELSE 0) + (mday - 1)

\* mktime(): tm_wday of the normalised date, 0 = Sunday .. 6 = Saturday
mktime_wday(year, month, mday) == (mktime_days(year, month, mday) + 4) % 7

-----------------------------------------------------------------------------
(* Calendar math of the sketch *)

lastSunday(year, month) == 31 - mktime_wday(year, month, 31)

\* isDstEurope with the March boundary hour excluded (hour > 1 for hour >= 1)
isDstEurope_LateStart(utc) ==
  IF gmtime_date(utc).month = 3
       /\ gmtime_date(utc).day = 31 - mktime_wday(gmtime_date(utc).year, 3, 31)
    THEN tm_hour(utc) > 1
    ELSE \/ gmtime_date(utc).month \in 4..9
         \/ /\ gmtime_date(utc).month = 3
            /\ gmtime_date(utc).day > 31 - mktime_wday(gmtime_date(utc).year, 3, 31)
         \/ /\ gmtime_date(utc).month = 10
            /\ gmtime_date(utc).day < 31 - mktime_wday(gmtime_date(utc).year, 10, 31)
         \/ /\ gmtime_date(utc).month = 10
            /\ gmtime_date(utc).day = 31 - mktime_wday(gmtime_date(utc).year, 10, 31)
            /\ tm_hour(utc) < 1

\* the body of isDstEurope, on the fields it reads from gmtime's result
DstOfFields(year, month, day, hour) ==
  IF month < 3 \/ month > 10 THEN FALSE
  ELSE IF month > 3 /\ month < 10 THEN TRUE
  ELSE IF month = 3
    THEN IF day > lastSunday(year, 3) THEN TRUE
         ELSE IF day < lastSunday(year, 3) THEN FALSE
         ELSE hour >= 1
    ELSE IF day < lastSunday(year, 10) THEN TRUE
         ELSE IF day > lastSunday(year, 10) THEN FALSE
         ELSE hour < 1

DstOfDate(t, hour) == DstOfFields(t.year, t.month, t.day, hour)

isDstEurope(utc) == DstOfDate(gmtime_date(utc), tm_hour(utc))

\* getUtcOffsetSeconds without the winter case
getUtcOffsetSeconds_AlwaysSummer(utc) == 7200

getUtcOffsetSeconds(utc) == IF isDstEurope(utc) THEN 7200 ELSE 3600

\* getDisplayTime with the winter offset all year
getDisplayTime_WinterOnly(utc) == utc + 3600

getDisplayTime(utc) == utc + getUtcOffsetSeconds(utc)

-----------------------------------------------------------------------------
(* The inputs of the specifications *)

\* SpecSched: the first instants of its three windows
SchedAnchors ==
  { mktime_days(2024, 3, 30) * 86400,
    mktime_days(2024, 10, 26) * 86400,
    mktime_days(2025, 1, 14) * 86400 }

\* hh:00:00, :00:01, :04:59, :05:00, :05:01, :30:00, :59:59
SchedOffsets == { 0, 1, 299, 300, 301, 1800, 3599 }

\* the hours around the nightly instant (01:05 or 02:05 UTC), and noon
SchedDayHours == { 0, 1, 2, 12 }

SchedInputs ==
  { a + h * 3600 + s :
      a \in SchedAnchors,
      h \in { x \in 0..(SchedHours - 1) : x % 24 \in SchedDayHours },
      s \in SchedOffsets }

\* Spec: the time that goes by between two cycles of loop():
\* 1 ms, 2 ms, one short of a minute, a minute, and 2^32 - 202 ms, which
\* takes the tick of setup() to two short of the wrap
TickSteps == { U32(1), U32(2), U32(59999), U32(60000), << 65535, 65334 >> }

\* the system clock before SNTP has set it, and 90 s before the nightly
\* instant 2024-10-27T02:05:00 UTC
SysTimes == { 0, 1729994700 - 90 }

-----------------------------------------------------------------------------
(* Resync scheduler *)

\* the candidate test without its minute comparison
IsNightlyTime_HourOnly(candidateDisp) ==
  /\ tm_hour(candidateDisp) = ntpSyncHour
  /\ tm_sec(candidateDisp) = 0

\* the test of one candidate's display time in scheduleNextNightlySync's loop
IsNightlyTime(candidateDisp) ==
  /\ tm_hour(candidateDisp) = ntpSyncHour
  /\ tm_min(candidateDisp) = ntpSyncMinute
  /\ tm_sec(candidateDisp) = 0

\* the candidate's display time taken with the winter offset all year
NightlyMatch_WinterOffset(candidateUtc) == IsNightlyTime(candidateUtc + 3600)

NightlyMatch(candidateUtc) == IsNightlyTime(getDisplayTime(candidateUtc))

\* the scan started at the current minute instead of the next one
ScanStart_ThisMinute(currentUtc) == currentUtc - (currentUtc % 60)

\* the scan started at currentUtc itself when that is a whole minute
ScanStart_AtOrAfter(currentUtc) ==
  IF currentUtc % 60 = 0 THEN currentUtc
  ELSE currentUtc - (currentUtc % 60) + 60

\* "Start at next full minute"
ScanStart(currentUtc) == currentUtc - (currentUtc % 60) + 60

\* the smallest index of a non-empty set of loop indices
FirstOf(hits) == CHOOSE k \in hits : \A j \in hits : k <= j

\* the candidates of one day only
HitsFrom_OneDay(startUtc, i) ==
  { k \in i..(i + 59) : k < 24 * 60 /\ NightlyMatch(startUtc + k * 60) }

\* the matching candidates among the sixty from index i on
HitsFrom(startUtc, i) ==
  { k \in i..(i + 59) : k < maxMinutes /\ NightlyMatch(startUtc + k * 60) }

\* The for loop from index i on: the index of the first candidate that
\* matches, or maxMinutes when the loop runs out without a match.  The
\* candidates are taken in index order, sixty at a time.
RECURSIVE ScanFrom(_, _)
ScanFrom(startUtc, i) ==
  IF i >= maxMinutes THEN maxMinutes
  ELSE IF HitsFrom(startUtc, i) # {} THEN FirstOf(HitsFrom(startUtc, i))
  ELSE ScanFrom(startUtc, i + 60)

\* The scans the specifications make again and again, made once: the
\* minutes that follow the inputs of SpecSched, and the minutes Spec's
\* internal clock can reach within MaxCycles cycles of a valid system time
\* or of the 4294967 s after it that the longest step adds
TabledStarts ==
  { a - (a % 60) + 60 : a \in SchedInputs } \cup
  { t - (t % 60) + 60 * k :
      t \in { x + y : x \in SysTimes \ { 0 }, y \in { 0, 4294967 } },
      k \in 0..(MaxCycles + 1) }

ScanTable == [ startUtc \in TabledStarts |-> ScanFrom(startUtc, 0) ]

\* the for loop of scheduleNextNightlySync from its first index on
ScanLoop(startUtc) ==
  IF startUtc \in TabledStarts THEN ScanTable[startUtc]
  ELSE ScanFrom(startUtc, 0)

\* what the loop, or the fallback after it, stores in nextNtpSyncEpoch
ScanResult(currentUtc, startUtc, i) ==
  IF i < maxMinutes THEN startUtc + i * 60
  ELSE currentUtc + 24 * 3600

\* the value scheduleNextNightlySync(currentUtc) stores in nextNtpSyncEpoch
scheduleNextNightlySync(currentUtc) ==
  ScanResult(currentUtc, ScanStart(currentUtc),
             ScanLoop(ScanStart(currentUtc)))

\* shouldStartNightlySync rescheduling from the overdue schedule instead of
\* from currentUtc
shouldStartNightlySync_FromStored(currentUtc) ==
  IF nextNtpSyncEpoch = 0
    THEN [ due |-> FALSE, next |-> scheduleNextNightlySync(currentUtc) ]
  ELSE IF currentUtc < nextNtpSyncEpoch
    THEN [ due |-> FALSE, next |-> nextNtpSyncEpoch ]
  ELSE [ due |-> TRUE, next |-> scheduleNextNightlySync(nextNtpSyncEpoch) ]

\* shouldStartNightlySync(currentUtc): what it returns and what it leaves
\* in nextNtpSyncEpoch
shouldStartNightlySync(currentUtc) ==
  IF nextNtpSyncEpoch = 0
    THEN [ due |-> FALSE, next |-> scheduleNextNightlySync(currentUtc) ]
  ELSE IF currentUtc < nextNtpSyncEpoch
    THEN [ due |-> FALSE, next |-> nextNtpSyncEpoch ]
  ELSE [ due |-> TRUE, next |-> scheduleNextNightlySync(currentUtc) ]

-----------------------------------------------------------------------------
(* Internal clock *)

\* isTimeValid(), of the value now that time(nullptr) returns
isTimeValid(now) == ~(now < TimeFloor)

\* getCurrentRtcTime taking a tick below the reference tick as no time gone
getCurrentRtcTime_NoWrap(baseTime, baseMillis, ms, sys) ==
  IF baseTime = 0 THEN sys
  ELSE IF Ge32(ms, baseMillis)
       THEN baseTime + DivThousand32(Sub32(ms, baseMillis))
       ELSE baseTime

\* getCurrentRtcTime(), reading rtcBaseTime = baseTime and rtcBaseMillis =
\* baseMillis while millis() returns ms and time(nullptr) returns sys
getCurrentRtcTime(baseTime, baseMillis, ms, sys) ==
  IF baseTime = 0 THEN sys
  ELSE baseTime + DivThousand32(Sub32(ms, baseMillis))

\* updateTimeFromRtc showing the UTC fields instead of the display time's
updateTimeFromRtc_Utc(nowUtc) ==
  [ hour |-> tm_hour(nowUtc), min |-> tm_min(nowUtc), sec |-> tm_sec(nowUtc) ]

\* updateTimeFromRtc(): t_hour, t_min, t_sec for the clock reading nowUtc
updateTimeFromRtc(nowUtc) ==
  [ hour |-> tm_hour(getDisplayTime(nowUtc)),
    min  |-> tm_min(getDisplayTime(nowUtc)),
    sec  |-> tm_sec(getDisplayTime(nowUtc)) ]

-----------------------------------------------------------------------------
(* Connectivity supervisor *)

\* the value of wifiLostSinceMs after "if (wifiLostSinceMs == 0)"
LostSince(nowMs, lostSince) ==
  IF lostSince = U32(0) THEN nowMs ELSE lostSince

\* "(nowMs - wifiLostSinceMs) > wifiLostTimeoutMs"
LostTooLong(nowMs, since) ==
  Gt32(Sub32(nowMs, since), U32(wifiLostTimeoutMs))

\* superviseWiFi without its reset
superviseWiFi_NeverResets(nowMs, connected, lostSince, state) ==
  IF connected
    THEN [ called |-> TRUE, lostSince |-> U32(0), state |-> state,
           forced |-> FALSE ]
  ELSE [ called |-> TRUE, lostSince |-> LostSince(nowMs, lostSince),
         state |-> state, forced |-> FALSE ]

\* superviseWiFi whose reset goes to STATE_SHOW_CLOCK
superviseWiFi_ResetToClock(nowMs, connected, lostSince, state) ==
  IF connected
    THEN [ called |-> TRUE, lostSince |-> U32(0), state |-> state,
           forced |-> FALSE ]
  ELSE IF LostTooLong(nowMs, LostSince(nowMs, lostSince))
    THEN [ called |-> TRUE, lostSince |-> U32(0),
           state |-> "STATE_SHOW_CLOCK", forced |-> TRUE ]
  ELSE [ called |-> TRUE, lostSince |-> LostSince(nowMs, lostSince),
         state |-> state, forced |-> FALSE ]

\* superviseWiFi(nowMs) called with WiFi.status() = connected, with
\* wifiLostSinceMs = lostSince and myState = state: what it leaves in
\* both, and whether it forced the reset
superviseWiFi(nowMs, connected, lostSince, state) ==
  IF connected
    THEN [ called |-> TRUE, lostSince |-> U32(0), state |-> state,
           forced |-> FALSE ]
  ELSE IF LostTooLong(nowMs, LostSince(nowMs, lostSince))
    THEN [ called |-> TRUE, lostSince |-> U32(0),
           state |-> "STATE_WIFI_CONFIG", forced |-> TRUE ]
  ELSE [ called |-> TRUE, lostSince |-> LostSince(nowMs, lostSince),
         state |-> state, forced |-> FALSE ]

\* the cycle calling superviseWiFi, with the connection present, where
\* loop() leaves before the call
NotSupervised_ThenCalled(lostSince, state) ==
  [ called |-> TRUE, lostSince |-> U32(0), state |-> state,
    forced |-> FALSE ]

\* a cycle that leaves loop() before superviseWiFi is called
NotSupervised(lostSince, state) ==
  [ called |-> FALSE, lostSince |-> lostSince, state |-> state,
    forced |-> FALSE ]

-----------------------------------------------------------------------------
(* The state after setup() *)

\* what the latest cycle of loop() did; n counts the cycles, rtcNow is the
\* latest value getCurrentRtcTime returned and rtcPrev the one before it,
\* lapsed tells that 2^32 ms or more went by since the clock reference
NoCycle ==
  [ n |-> 0, phase |-> "none", branch |-> "none", nowMs |-> U32(0),
    supervised |-> FALSE, connected |-> FALSE, t0 |-> U32(0),
    forced |-> FALSE, lastRender |-> U32(0), rendered |-> FALSE,
    hadRef |-> FALSE, stripBefore |-> "off", due |-> FALSE,
    rtcCalled |-> FALSE, rtcPrev |-> 0, rtcNow |-> 0, lapsed |-> FALSE ]

\* the run of cycles in which the connection has been absent since
\* superviseWiFi first saw it absent at tick t0
NoAbsence == [ active |-> FALSE, t0 |-> U32(0) ]
NoCall == [ op |-> "none" ]

ProgramInit ==
  /\ myState = "STATE_WIFI_CONFIG"
  /\ rtcBaseTime = 0
  /\ rtcBaseMillis = U32(0)
  /\ nextNtpSyncEpoch = 0
  /\ ntpSyncInProgress = FALSE
  /\ ntpSyncStartMs = U32(0)
  /\ wifiLostSinceMs = U32(0)
  /\ lastRenderMillis = U32(0)
  /\ t_hour = 0 /\ t_min = 0 /\ t_sec = 0
  /\ strip = "off"
  /\ millis = U32(200)           \* setup() ends after its delay(200)
  /\ sysTime = 0
  /\ wifiConnected = FALSE
  /\ fetchDone = FALSE
  /\ cyc = NoCycle
  /\ absence = NoAbsence

programVars == << myState, rtcBaseTime, rtcBaseMillis, nextNtpSyncEpoch,
                  ntpSyncInProgress, ntpSyncStartMs, wifiLostSinceMs,
                  lastRenderMillis, t_hour, t_min, t_sec, strip, millis,
                  sysTime, wifiConnected, fetchDone, cyc, absence >>

-----------------------------------------------------------------------------
(* SpecCal: the calendar functions on every hour of FirstYear..LastYear,    *)
(* at the first two seconds and the last second of the hour                 *)

CalInputs ==
  { DaysBeforeYear(y) * 86400 + h * 3600 + s :
      y \in FirstYear..LastYear, h \in 0..(24 * 366 - 1), s \in {0, 1, 3599} }

CalInit ==
  /\ ProgramInit
  /\ arg \in CalInputs
  /\ call = NoCall

CallIsDstEurope ==
  /\ call.op = "none"
  /\ call' = [ op |-> "isDstEurope", ret |-> isDstEurope(arg) ]
  /\ UNCHANGED << programVars, arg >>

CallGetDisplayTime ==
  /\ call.op = "none"
  /\ call' = [ op |-> "getDisplayTime", ret |-> getDisplayTime(arg) ]
  /\ UNCHANGED << programVars, arg >>

CalNext == CallIsDstEurope \/ CallGetDisplayTime

SpecCal == CalInit /\ [][CalNext]_vars

-----------------------------------------------------------------------------
(* SpecSunday: lastSunday(year, month) called for every month of the years *)
(* FirstYear - YearMargin .. LastYear + YearMargin                          *)

SundayInputs ==
  ((FirstYear - YearMargin)..(LastYear + YearMargin)) \X (1..12)

SundayInit ==
  /\ ProgramInit
  /\ arg \in SundayInputs
  /\ call = NoCall

CallLastSunday ==
  /\ call.op = "none"
  /\ call' = [ op |-> "lastSunday", ret |-> lastSunday(arg[1], arg[2]) ]
  /\ UNCHANGED << programVars, arg >>

SundayNext == CallLastSunday

SpecSunday == SundayInit /\ [][SundayNext]_vars

-----------------------------------------------------------------------------
(* The display: colorDefines as initColorDefines() fills it, and the pixels *)
(* renderBerlinClock(nowMs) leaves on the strip for t_hour and t_min.  A    *)
(* colour is << red, green, blue >>.                                        *)

COLOR_RED     == << 255, 0, 0 >>
COLOR_GREEN   == << 0, 255, 0 >>
COLOR_BLUE    == << 0, 0, 255 >>
COLOR_MAGENTA == << 255, 0, 255 >>
COLOR_YELLOW  == << 255, 255, 0 >>
COLOR_WHITE   == << 255, 255, 255 >>

\* what strip.clear() leaves in every pixel
PixelOff == << 0, 0, 0 >>

\* colorDefines[idx] after initColorDefines()
colorDefines(idx) ==
  IF idx \in 0..3 THEN COLOR_RED
  ELSE IF idx \in 4..14
    THEN (IF (idx - 4) \in { 2, 5, 8 } THEN COLOR_YELLOW ELSE COLOR_GREEN)
  ELSE IF idx \in 15..18 THEN COLOR_BLUE
  ELSE IF idx \in 19..22 THEN COLOR_MAGENTA
  ELSE COLOR_WHITE

\* the first line of gamma8, in 16-bit unsigned arithmetic
GammaSquare(x) == ((x * x + 255) % 65536) \div 256

\* gamma8(inValue)
gamma8(inValue) ==
  IF ((GammaSquare(inValue) * inValue + 255) % 65536) \div 256 > 255
    THEN 255
    ELSE ((GammaSquare(inValue) * inValue + 255) % 65536) \div 256

\* nowMs % 1000 (65536 = 65 * 1000 + 536)
ModThousand32(a) == (a[1] * 536 + a[2]) % 1000

\* levelLin, the cosine wave of the seconds lamp, at the phases where its
\* value does not hang on the rounding of cosf: 0 at the start of the
\* second, 127 at a quarter and three quarters, 255 at the half
levelLin(nowMs) ==
  IF ModThousand32(nowMs) = 0 THEN 0
  ELSE IF ModThousand32(nowMs) = 500 THEN 255
  ELSE 127

\* the colour of the seconds lamp
SecondColor(nowMs) ==
  << (colorDefines(23)[1] * gamma8(levelLin(nowMs))) \div 255,
     (colorDefines(23)[2] * gamma8(levelLin(nowMs))) \div 255,
     (colorDefines(23)[3] * gamma8(levelLin(nowMs))) \div 255 >>

\* one pass of a row's for loop: the pixel at first + i is set when
\* i < blocks
RowPixel(idx, first, blocks) ==
  IF idx - first < blocks THEN colorDefines(idx) ELSE PixelOff

\* renderBerlinClock with "i <= blocks" for "i < blocks" in its loops
renderBerlinClock_OneMore(nowMs, hour, min) ==
  [ idx \in 0..23 |->
      IF idx = 23 THEN SecondColor(nowMs)
      ELSE IF idx >= 19 THEN RowPixel(idx, 19, (hour \div 5) + 1)
      ELSE IF idx >= 15 THEN RowPixel(idx, 15, (hour % 5) + 1)
      ELSE IF idx >= 4 THEN RowPixel(idx, 4, (min \div 5) + 1)
      ELSE RowPixel(idx, 0, (min % 5) + 1) ]

\* renderBerlinClock(nowMs) with t_hour = hour and t_min = min: the colour
\* of every pixel
renderBerlinClock(nowMs, hour, min) ==
  [ idx \in 0..23 |->
      IF idx = 23 THEN SecondColor(nowMs)
      ELSE IF idx >= 19 THEN RowPixel(idx, 19, hour \div 5)
      ELSE IF idx >= 15 THEN RowPixel(idx, 15, hour % 5)
      ELSE IF idx >= 4 THEN RowPixel(idx, 4, min \div 5)
      ELSE RowPixel(idx, 0, min % 5) ]

(* SpecRender: renderBerlinClock called for every t_hour and t_min, with   *)
(* t_sec and the tick of the call varied                                    *)

RenderTicks == { U32(0), U32(250), U32(1500) }
RenderSeconds == { 0, 59 }

RenderInit ==
  /\ myState = "STATE_SHOW_CLOCK"
  /\ t_hour \in 0..23
  /\ t_min \in 0..59
  /\ t_sec \in RenderSeconds
  /\ millis \in RenderTicks
  /\ rtcBaseTime = 0
  /\ rtcBaseMillis = U32(0)
  /\ sysTime = 0
  /\ nextNtpSyncEpoch = 0
  /\ ntpSyncInProgress = FALSE
  /\ ntpSyncStartMs = U32(0)
  /\ wifiLostSinceMs = U32(0)
  /\ lastRenderMillis = U32(0)
  /\ strip = "off"
  /\ wifiConnected = TRUE
  /\ fetchDone = TRUE
  /\ cyc = NoCycle
  /\ absence = NoAbsence
  /\ arg = 0
  /\ call = NoCall

CallRenderBerlinClock ==
  /\ call.op = "none"
  /\ strip' = "clock"
  /\ call' = [ op |-> "renderBerlinClock",
               ret |-> renderBerlinClock(millis, t_hour, t_min) ]
  /\ UNCHANGED << myState, rtcBaseTime, rtcBaseMillis, nextNtpSyncEpoch,
                  ntpSyncInProgress, ntpSyncStartMs, wifiLostSinceMs,
                  lastRenderMillis, t_hour, t_min, t_sec, millis, sysTime,
                  wifiConnected, fetchDone, cyc, absence, arg >>

RenderNext == CallRenderBerlinClock

SpecRender == RenderInit /\ [][RenderNext]_vars

-----------------------------------------------------------------------------
(* SpecSched: the scheduler called at instants of three windows of         *)
(* SchedHours hours: around the clock changes of 2024 (from 00:00 UTC the  *)
(* day before) and on winter days.  The calls come in the hours            *)
(* SchedDayHours of each day, at the seconds SchedOffsets of the hour, and *)
(* the caller's clock only moves forward.                                  *)

SchedInit ==
  /\ ProgramInit
  /\ arg \in SchedInputs
  /\ call = NoCall

schedFrame == << myState, rtcBaseTime, rtcBaseMillis, ntpSyncInProgress,
                 ntpSyncStartMs, wifiLostSinceMs, lastRenderMillis, t_hour,
                 t_min, t_sec, strip, millis, sysTime, wifiConnected,
                 fetchDone, cyc, absence >>

CallScheduleNext ==
  /\ nextNtpSyncEpoch' = scheduleNextNightlySync(arg)
  /\ call' = [ op |-> "scheduleNextNightlySync", from |-> arg,
               prior |-> nextNtpSyncEpoch, ret |-> FALSE ]
  /\ UNCHANGED << schedFrame, arg >>

CallShouldStart ==
  LET r == shouldStartNightlySync(arg)
  IN  /\ nextNtpSyncEpoch' = r.next
      /\ call' = [ op |-> "shouldStartNightlySync", from |-> arg,
                   prior |-> nextNtpSyncEpoch, ret |-> r.due ]
      /\ UNCHANGED << schedFrame, arg >>

\* time passes between two calls, up to the end of the window
AdvanceClock ==
  /\ \E a \in SchedInputs :
       /\ a > arg
       /\ a - arg <= SchedHours * 3600
       /\ arg' = a
  /\ call' = NoCall
  /\ UNCHANGED << schedFrame, nextNtpSyncEpoch >>

SchedNext == CallScheduleNext \/ CallShouldStart \/ AdvanceClock

SpecSched == SchedInit /\ [][SchedNext]_vars

-----------------------------------------------------------------------------
(* SpecClock: getCurrentRtcTime() read with a reference (rtcBaseTime,       *)
(* rtcBaseMillis) while millis() has advanced from the reference tick by    *)
(* arg[1] + arg[2] milliseconds, a sum below 2^32, wrapping where it must   *)

ClockRefs == { 1700000000, TimeFloor }
ClockRefTicks == { U32(0), U32(1000), U32(2147483647),
                   << 65535, 5536 >>,      \* 2^32 - 60000
                   << 65535, 65535 >> }    \* 2^32 - 1
ClockElapsed == { 0, 999, 1000, 60000, 2147483647 }
ClockElapsedMore == { 0, 1, 2147483647 }
ClockInputs == ClockElapsed \X ClockElapsedMore

ClockInit ==
  /\ myState = "STATE_SHOW_CLOCK"
  /\ rtcBaseTime \in ClockRefs
  /\ rtcBaseMillis \in ClockRefTicks
  /\ arg \in ClockInputs
  /\ millis = Add32(Add32(rtcBaseMillis, U32(arg[1])), U32(arg[2]))
  /\ sysTime = rtcBaseTime
  /\ nextNtpSyncEpoch = 0
  /\ ntpSyncInProgress = FALSE
  /\ ntpSyncStartMs = U32(0)
  /\ wifiLostSinceMs = U32(0)
  /\ lastRenderMillis = U32(0)
  /\ t_hour = 0 /\ t_min = 0 /\ t_sec = 0
  /\ strip = "off"
  /\ wifiConnected = TRUE
  /\ fetchDone = TRUE
  /\ cyc = NoCycle
  /\ absence = NoAbsence
  /\ call = NoCall

CallGetCurrentRtcTime ==
  /\ call' = [ op |-> "getCurrentRtcTime", from |-> rtcBaseTime,
               prior |-> nextNtpSyncEpoch,
               ret |-> getCurrentRtcTime(rtcBaseTime, rtcBaseMillis, millis,
                                         sysTime) ]
  /\ UNCHANGED << programVars, arg >>

ClockNext == CallGetCurrentRtcTime

SpecClock == ClockInit /\ [][ClockNext]_vars

-----------------------------------------------------------------------------
(* Spec: loop().  One action is one cycle of loop() in one of the three    *)
(* states.  The environment gives each cycle the time d that went by since *)
(* the previous one (in STATE_WIFI_CONFIG: until setupWifi returned), the  *)
(* WiFi status w the cycle sees and, in STATE_WAIT_FOR_TIME, the values t  *)
(* and t2 that the two reads of time(nullptr) return.  Every millis() of   *)
(* one cycle returns the same tick.                                        *)

\* "(nowMs - lastRenderMillis) >= renderIntervalMs"
RenderDue(nowMs) == Ge32(Sub32(nowMs, lastRenderMillis), U32(renderIntervalMs))

\* syncRtcFromSystemTime never setting the clock back: it keeps the
\* clock's own value when that is later than the reading
syncRtcFromSystemTime_ForwardOnly(now, ms) ==
  IF now < TimeFloor
    THEN [ ok |-> FALSE, baseTime |-> rtcBaseTime,
           baseMillis |-> rtcBaseMillis, next |-> nextNtpSyncEpoch ]
  ELSE [ ok |-> TRUE,
         baseTime |->
           IF getCurrentRtcTime(rtcBaseTime, rtcBaseMillis, ms, now) > now
             THEN getCurrentRtcTime(rtcBaseTime, rtcBaseMillis, ms, now)
             ELSE now,
         baseMillis |-> ms,
         next |-> scheduleNextNightlySync(now) ]

\* syncRtcFromSystemTime storing the reference pair before it tests the
\* reading
syncRtcFromSystemTime_StoreFirst(now, ms) ==
  IF now < TimeFloor
    THEN [ ok |-> FALSE, baseTime |-> now, baseMillis |-> ms,
           next |-> nextNtpSyncEpoch ]
  ELSE [ ok |-> TRUE, baseTime |-> now, baseMillis |-> ms,
         next |-> scheduleNextNightlySync(now) ]

\* syncRtcFromSystemTime replacing the time of the reference pair and
\* keeping its tick
syncRtcFromSystemTime_TimeOnly(now, ms) ==
  IF now < TimeFloor
    THEN [ ok |-> FALSE, baseTime |-> rtcBaseTime,
           baseMillis |-> rtcBaseMillis, next |-> nextNtpSyncEpoch ]
  ELSE [ ok |-> TRUE, baseTime |-> now, baseMillis |-> rtcBaseMillis,
         next |-> scheduleNextNightlySync(now) ]

\* syncRtcFromSystemTime without its call of scheduleNextNightlySync
syncRtcFromSystemTime_NoSchedule(now, ms) ==
  IF now < TimeFloor
    THEN [ ok |-> FALSE, baseTime |-> rtcBaseTime,
           baseMillis |-> rtcBaseMillis, next |-> nextNtpSyncEpoch ]
  ELSE [ ok |-> TRUE, baseTime |-> now, baseMillis |-> ms,
         next |-> nextNtpSyncEpoch ]

\* syncRtcFromSystemTime() when time(nullptr) returns now and millis() ms
syncRtcFromSystemTime(now, ms) ==
  IF now < TimeFloor
    THEN [ ok |-> FALSE, baseTime |-> rtcBaseTime,
           baseMillis |-> rtcBaseMillis, next |-> nextNtpSyncEpoch ]
  ELSE [ ok |-> TRUE, baseTime |-> now, baseMillis |-> ms,
         next |-> scheduleNextNightlySync(now) ]

\* the absence the cycle leaves behind: it ends when a cycle sees the
\* connection or superviseWiFi forces the reset, and it starts when
\* superviseWiFi sees the connection absent
AbsenceNext(nowMs, connected, sup) ==
  IF connected \/ sup.forced THEN NoAbsence
  ELSE IF ~sup.called \/ absence.active THEN absence
  ELSE [ active |-> TRUE, t0 |-> nowMs ]

\* the record of the cycle
CycleOf(phase, branch, nowMs, connected, sup, rendered, due, rtcCalled, rtcNow) ==
  [ n |-> cyc.n + 1, phase |-> phase, branch |-> branch, nowMs |-> nowMs,
    supervised |-> sup.called, connected |-> connected,
    t0 |-> IF absence.active THEN absence.t0 ELSE nowMs,
    forced |-> sup.forced, lastRender |-> lastRenderMillis,
    rendered |-> rendered, hadRef |-> rtcBaseTime # 0,
    stripBefore |-> strip, due |-> due, rtcCalled |-> rtcCalled,
    rtcPrev |-> cyc.rtcNow,
    rtcNow |-> IF rtcCalled THEN rtcNow ELSE cyc.rtcNow,
    lapsed |-> /\ branch # "absorbed"
               /\ rtcBaseTime # 0
               /\ \/ cyc.lapsed
                  \/ Gt32(Sub32(millis, rtcBaseMillis),
                          Sub32(nowMs, rtcBaseMillis)) ]

\* case STATE_WIFI_CONFIG without the assignment of line 337
LoopWifiConfig_NotArmed ==
  /\ myState = "STATE_WIFI_CONFIG"
  /\ cyc.n < MaxCycles
  /\ \E d \in TickSteps :
       /\ millis' = Add32(millis, d)
       /\ ntpSyncStartMs' = Add32(millis, d)
       /\ cyc' = CycleOf("STATE_WIFI_CONFIG", "config", Add32(millis, d), TRUE,
                         NotSupervised(wifiLostSinceMs, "STATE_WAIT_FOR_TIME"),
                         FALSE, FALSE, FALSE, 0)
  /\ strip' = "rainbow"
  /\ wifiConnected' = TRUE
  /\ fetchDone' = FALSE
  /\ absence' = NoAbsence
  /\ ntpSyncInProgress' = ntpSyncInProgress
  /\ myState' = "STATE_WAIT_FOR_TIME"
  /\ UNCHANGED << rtcBaseTime, rtcBaseMillis, nextNtpSyncEpoch, wifiLostSinceMs,
                  lastRenderMillis, t_hour, t_min, t_sec, sysTime, arg, call >>

\* case STATE_WIFI_CONFIG
LoopWifiConfig ==
  /\ myState = "STATE_WIFI_CONFIG"
  /\ cyc.n < MaxCycles
  /\ \E d \in TickSteps :
       /\ millis' = Add32(millis, d)
       /\ ntpSyncStartMs' = Add32(millis, d)
       /\ cyc' = CycleOf("STATE_WIFI_CONFIG", "config", Add32(millis, d), TRUE,
                         NotSupervised(wifiLostSinceMs, "STATE_WAIT_FOR_TIME"),
                         FALSE, FALSE, FALSE, 0)
  /\ strip' = "rainbow"
  /\ wifiConnected' = TRUE
  /\ fetchDone' = FALSE
  /\ absence' = NoAbsence
  /\ ntpSyncInProgress' = TRUE
  /\ myState' = "STATE_WAIT_FOR_TIME"
  /\ UNCHANGED << rtcBaseTime, rtcBaseMillis, nextNtpSyncEpoch, wifiLostSinceMs,
                  lastRenderMillis, t_hour, t_min, t_sec, sysTime, arg, call >>

\* the wait's timeout test with the supervisor's limit of 60 seconds
WaitTimedOut_SupervisorLimit(nowMs) ==
  ntpSyncInProgress /\ Gt32(Sub32(nowMs, ntpSyncStartMs), U32(wifiLostTimeoutMs))

\* "ntpSyncInProgress && ((millis() - ntpSyncStartMs) > ntpWaitTimeoutMs)"
WaitTimedOut(nowMs) ==
  ntpSyncInProgress /\ Gt32(Sub32(nowMs, ntpSyncStartMs), U32(ntpWaitTimeoutMs))

\* STATE_WAIT_FOR_TIME, the wait has timed out: break before superviseWiFi
WaitTimeout(nowMs, w) ==
  /\ WaitTimedOut(nowMs)
  /\ ntpSyncInProgress' = FALSE
  /\ myState' = "STATE_WIFI_CONFIG"
  /\ absence' = AbsenceNext(nowMs, w, NotSupervised(wifiLostSinceMs, myState))
  /\ cyc' = CycleOf("STATE_WAIT_FOR_TIME", "timeout", nowMs, w,
                    NotSupervised(wifiLostSinceMs, myState),
                    FALSE, FALSE, FALSE, 0)
  /\ UNCHANGED << rtcBaseTime, rtcBaseMillis, nextNtpSyncEpoch, ntpSyncStartMs,
                  wifiLostSinceMs, lastRenderMillis, t_hour, t_min, t_sec,
                  strip, sysTime >>

\* STATE_WAIT_FOR_TIME, isTimeValid() is false: superviseWiFi and break
WaitStill(nowMs, w, t, sup) ==
  /\ ~WaitTimedOut(nowMs)
  /\ ~isTimeValid(t)
  /\ sysTime' = t
  /\ wifiLostSinceMs' = sup.lostSince
  /\ myState' = sup.state
  /\ absence' = AbsenceNext(nowMs, w, sup)
  /\ cyc' = CycleOf("STATE_WAIT_FOR_TIME", "waiting", nowMs, w, sup,
                    FALSE, FALSE, FALSE, 0)
  /\ UNCHANGED << rtcBaseTime, rtcBaseMillis, nextNtpSyncEpoch,
                  ntpSyncInProgress, ntpSyncStartMs, lastRenderMillis,
                  t_hour, t_min, t_sec, strip >>

\* STATE_WAIT_FOR_TIME, isTimeValid() is true and syncRtcFromSystemTime()
\* false: break before superviseWiFi
WaitRejected(nowMs, w, t, t2) ==
  /\ ~WaitTimedOut(nowMs)
  /\ isTimeValid(t)
  /\ t2 < TimeFloor
  /\ ~syncRtcFromSystemTime(t2, nowMs).ok
  /\ sysTime' = t2
  /\ ntpSyncInProgress' = FALSE
  /\ myState' = "STATE_WIFI_CONFIG"
  /\ absence' = AbsenceNext(nowMs, w, NotSupervised(wifiLostSinceMs, myState))
  /\ rtcBaseTime' = syncRtcFromSystemTime(t2, nowMs).baseTime
  /\ rtcBaseMillis' = syncRtcFromSystemTime(t2, nowMs).baseMillis
  /\ nextNtpSyncEpoch' = syncRtcFromSystemTime(t2, nowMs).next
  /\ cyc' = CycleOf("STATE_WAIT_FOR_TIME", "rejected", nowMs, w,
                    NotSupervised(wifiLostSinceMs, myState),
                    FALSE, FALSE, FALSE, 0)
  /\ UNCHANGED << ntpSyncStartMs, wifiLostSinceMs, lastRenderMillis, t_hour,
                  t_min, t_sec, strip >>

\* STATE_WAIT_FOR_TIME, the reading is absorbed: r is what
\* syncRtcFromSystemTime() did, sup what superviseWiFi did after
\* myState = STATE_SHOW_CLOCK
WaitAbsorbedWith(nowMs, w, t2, r, sup) ==
  /\ sysTime' = t2
  /\ rtcBaseTime' = r.baseTime
  /\ rtcBaseMillis' = r.baseMillis
  /\ nextNtpSyncEpoch' = r.next
  /\ ntpSyncInProgress' = FALSE
  /\ wifiLostSinceMs' = sup.lostSince
  /\ myState' = sup.state
  /\ absence' = AbsenceNext(nowMs, w, sup)
  /\ cyc' = CycleOf("STATE_WAIT_FOR_TIME", "absorbed", nowMs, w, sup,
                    FALSE, FALSE, TRUE,
                    getCurrentRtcTime(r.baseTime, r.baseMillis, nowMs, t2))
  /\ UNCHANGED << ntpSyncStartMs, lastRenderMillis, t_hour, t_min, t_sec,
                  strip >>

\* the absorbing cycle with superviseWiFi called before
\* myState = STATE_SHOW_CLOCK
WaitAbsorbed_SupervisedFirst(nowMs, w, t, t2) ==
  /\ ~WaitTimedOut(nowMs)
  /\ isTimeValid(t)
  /\ ~(t2 < TimeFloor)
  /\ \E r \in { syncRtcFromSystemTime(t2, nowMs) } :
       WaitAbsorbedWith(nowMs, w, t2, r,
                        [ superviseWiFi(nowMs, w, wifiLostSinceMs,
                                        "STATE_WAIT_FOR_TIME")
                            EXCEPT !.state = "STATE_SHOW_CLOCK" ])

WaitAbsorbed(nowMs, w, t, t2) ==
  /\ ~WaitTimedOut(nowMs)
  /\ isTimeValid(t)
  /\ ~(t2 < TimeFloor)
  /\ \E r \in { syncRtcFromSystemTime(t2, nowMs) } :
       WaitAbsorbedWith(nowMs, w, t2, r,
                        superviseWiFi(nowMs, w, wifiLostSinceMs, "STATE_SHOW_CLOCK"))

\* the values t and t2 that the cycle's two reads of time(nullptr) can
\* return: anything the fetch delivers when one has delivered since the
\* cycle before (f), and the system clock's own time when none has
Reads(f, t, t2) == f \/ (t = sysTime /\ t2 = sysTime)

\* case STATE_WAIT_FOR_TIME
LoopWaitForTime ==
  /\ myState = "STATE_WAIT_FOR_TIME"
  /\ cyc.n < MaxCycles
  /\ \E d \in TickSteps, w \in BOOLEAN :
       /\ millis' = Add32(millis, d)
       /\ wifiConnected' = w
       /\ \/ /\ WaitTimeout(Add32(millis, d), w)
             /\ UNCHANGED fetchDone
          \/ \E f \in BOOLEAN, t \in SysTimes :
               /\ Reads(f, t, t)
               /\ fetchDone' = (fetchDone \/ f)
               /\ WaitStill(Add32(millis, d), w, t,
                            superviseWiFi(Add32(millis, d), w, wifiLostSinceMs,
                                          "STATE_WAIT_FOR_TIME"))
          \/ \E f \in BOOLEAN, t \in SysTimes, t2 \in SysTimes :
               /\ Reads(f, t, t2)
               /\ fetchDone' = (fetchDone \/ f)
               /\ \/ WaitRejected(Add32(millis, d), w, t, t2)
                  \/ WaitAbsorbed(Add32(millis, d), w, t, t2)
  /\ UNCHANGED << arg, call >>

\* the cycle of STATE_SHOW_CLOCK starting a due resync without recording its
\* start tick
ShowClockWith_KeepsStartTick(nowMs, w, currentUtc, r, sup) ==
  /\ lastRenderMillis' = IF RenderDue(nowMs) THEN nowMs ELSE lastRenderMillis
  /\ t_hour' = IF RenderDue(nowMs) THEN updateTimeFromRtc(currentUtc).hour ELSE t_hour
  /\ t_min' = IF RenderDue(nowMs) THEN updateTimeFromRtc(currentUtc).min ELSE t_min
  /\ t_sec' = IF RenderDue(nowMs) THEN updateTimeFromRtc(currentUtc).sec ELSE t_sec
  /\ strip' = IF RenderDue(nowMs) THEN "clock" ELSE strip
  /\ nextNtpSyncEpoch' = r.next
  /\ ntpSyncInProgress' = (r.due \/ ntpSyncInProgress)
  /\ ntpSyncStartMs' = ntpSyncStartMs
  /\ fetchDone' = (~r.due /\ fetchDone)
  /\ wifiLostSinceMs' = sup.lostSince
  /\ myState' = sup.state
  /\ absence' = AbsenceNext(nowMs, w, sup)
  /\ cyc' = CycleOf("STATE_SHOW_CLOCK", "show", nowMs, w, sup,
                    RenderDue(nowMs), r.due, TRUE, currentUtc)
  /\ UNCHANGED << rtcBaseTime, rtcBaseMillis, sysTime >>

\* STATE_SHOW_CLOCK: r is what shouldStartNightlySync(currentUtc) returned
\* and stored, sup what superviseWiFi did at the end of the cycle
ShowClockWith(nowMs, w, currentUtc, r, sup) ==
  /\ lastRenderMillis' = IF RenderDue(nowMs) THEN nowMs ELSE lastRenderMillis
  /\ t_hour' = IF RenderDue(nowMs) THEN updateTimeFromRtc(currentUtc).hour ELSE t_hour
  /\ t_min' = IF RenderDue(nowMs) THEN updateTimeFromRtc(currentUtc).min ELSE t_min
  /\ t_sec' = IF RenderDue(nowMs) THEN updateTimeFromRtc(currentUtc).sec ELSE t_sec
  /\ strip' = IF RenderDue(nowMs) THEN "clock" ELSE strip
  /\ nextNtpSyncEpoch' = r.next
  /\ ntpSyncInProgress' = (r.due \/ ntpSyncInProgress)
  /\ ntpSyncStartMs' = IF r.due THEN nowMs ELSE ntpSyncStartMs
  /\ fetchDone' = (~r.due /\ fetchDone)
  /\ wifiLostSinceMs' = sup.lostSince
  /\ myState' = sup.state
  /\ absence' = AbsenceNext(nowMs, w, sup)
  /\ cyc' = CycleOf("STATE_SHOW_CLOCK", "show", nowMs, w, sup,
                    RenderDue(nowMs), r.due, TRUE, currentUtc)
  /\ UNCHANGED << rtcBaseTime, rtcBaseMillis, sysTime >>

ShowNightly(nowMs, w, currentUtc, r) ==
  ShowClockWith(nowMs, w, currentUtc, r,
                superviseWiFi(nowMs, w, wifiLostSinceMs,
                              IF r.due THEN "STATE_WAIT_FOR_TIME"
                                       ELSE "STATE_SHOW_CLOCK"))

ShowClock(nowMs, w, currentUtc) ==
  \E r \in { shouldStartNightlySync(currentUtc) } :
    ShowNightly(nowMs, w, currentUtc, r)

\* case STATE_SHOW_CLOCK
LoopShowClock ==
  /\ myState = "STATE_SHOW_CLOCK"
  /\ cyc.n < MaxCycles
  /\ \E d \in TickSteps, w \in BOOLEAN :
       /\ millis' = Add32(millis, d)
       /\ wifiConnected' = w
       /\ ShowClock(Add32(millis, d), w,
                    getCurrentRtcTime(rtcBaseTime, rtcBaseMillis,
                                      Add32(millis, d), sysTime))
  /\ UNCHANGED << arg, call >>

Init == ProgramInit /\ arg = 0 /\ call = NoCall

Next == LoopWifiConfig \/ LoopWaitForTime \/ LoopShowClock

Spec == Init /\ [][Next]_vars

\* the tick of one more cycle: every step of Next is one, and in every
\* state that has not used up its MaxCycles cycles one of the three cases
\* of Next can be taken
LoopTick ==
  /\ cyc.n < MaxCycles
  /\ millis' \in { Add32(millis, d) : d \in TickSteps }

\* loop() is called again and again: while a cycle can run, the next cycle
\* comes
SpecLive == Init /\ [][Next]_vars /\ WF_millis(LoopTick)

-----------------------------------------------------------------------------
(* Claims about the calendar functions (SpecCal) *)

\* the day in 25..31 of a 31-day month that is a Sunday, found by search
\* with the weekday gmtime reports for that day's midnight
SundayIn(year, month) ==
  CHOOSE d \in 25..31 :
    gmtime_date(mktime_days(year, month, d) * 86400).wday = 0

\* 01:00:00 UTC on the last Sunday of the month, as an epoch
ChangeInstant(year, month) ==
  mktime_days(year, month, SundayIn(year, month)) * 86400 + 3600

\* C1: isDstEurope(utc) is true exactly when utc lies in the half-open
\* interval from 01:00:00 UTC on the last Sunday of March to 01:00:00 UTC
\* on the last Sunday of October of utc's year.
C1_DstInterval ==
  call.op = "isDstEurope" =>
    LET year == gmtime_date(arg).year
    IN  call.ret <=> (ChangeInstant(year, 3) <= arg /\ arg < ChangeInstant(year, 10))

\* C1 witness: the calls at 2024-03-31T00:59:59 / 01:00:00 and at
\* 2024-10-27T00:59:59 / 01:00:00 are made; this is the one at the start
\* boundary, which answers true.
C1_Witness ==
  /\ call.op = "isDstEurope"
  /\ arg = ChangeInstant(2024, 3)
  /\ arg = 1711846800
  /\ call.ret = TRUE

\* C14: for every UTC instant utc, getDisplayTime(utc) - utc is 7200 when
\* isDstEurope(utc) is true and 3600 when it is false, and never anything
\* else.
C14_OffsetFollowsDst ==
  call.op = "getDisplayTime" =>
    /\ call.ret - arg \in { 3600, 7200 }
    /\ isDstEurope(arg) => call.ret - arg = 7200
    /\ ~isDstEurope(arg) => call.ret - arg = 3600

\* C14: the last second of summer time of 2024 (2024-10-27T00:59:59 UTC)
\* is displayed as 02:59:59
C14_Witness ==
  /\ call.op = "getDisplayTime"
  /\ arg = ChangeInstant(2024, 10) - 1
  /\ isDstEurope(arg)
  /\ call.ret = arg + 7200
  /\ tm_hour(call.ret) = 2 /\ tm_min(call.ret) = 59 /\ tm_sec(call.ret) = 59

\* the number of days of the month
DaysInMonth(year, month) ==
  IF month = 2 THEN (IF IsLeapYear(year) THEN 29 ELSE 28)
  ELSE << 31, 28, 31, 30, 31, 30, 31, 31, 30, 31, 30, 31 >>[month]

\* day d of the month is a Sunday, by the weekday gmtime reports for its
\* midnight
IsSunday(year, month, d) ==
  gmtime_date(mktime_days(year, month, d) * 86400).wday = 0

\* C13 as stated: for every year and every month 1..12, lastSunday(year,
\* month) is a valid day of that month, is a Sunday, and no later day of
\* the month is a Sunday.
C13_LastSundayOfEveryMonth ==
  call.op = "lastSunday" =>
    /\ call.ret \in 1..DaysInMonth(arg[1], arg[2])
    /\ IsSunday(arg[1], arg[2], call.ret)
    /\ \A d \in (call.ret + 1)..DaysInMonth(arg[1], arg[2]) :
         ~IsSunday(arg[1], arg[2], d)

\* C13, the failing case: November 2024 has 30 days and December 1st is a
\* Sunday; lastSunday(2024, 11) is 31
C13_Witness ==
  /\ call.op = "lastSunday"
  /\ arg = << 2024, 11 >>
  /\ call.ret = 31
  /\ DaysInMonth(2024, 11) = 30

\* what holds: in the months of 31 days, the only ones isDstEurope asks
\* about, the answer is the last Sunday
LastSundayOfLongMonths ==
  (call.op = "lastSunday" /\ DaysInMonth(arg[1], arg[2]) = 31) =>
    /\ call.ret \in 25..31
    /\ IsSunday(arg[1], arg[2], call.ret)

-----------------------------------------------------------------------------
(* Claims about the scheduler (SpecSched) *)

\* C2 as stated: called with fromUtc = 2024-10-27T00:30:00 UTC (1729989000),
\* scheduleNextNightlySync stores 2024-10-27T01:05:00 UTC (1729991100).
C2_StoresSummerInstant ==
  (call.op = "scheduleNextNightlySync" /\ call.from = 1729989000)
    => nextNtpSyncEpoch = 1729991100

\* C2 amended: called with fromUtc = 2024-10-27T00:30:00 UTC, it stores
\* 2024-10-27T02:05:00 UTC (1729994700): at 01:05 UTC the winter offset
\* already applies and the display time is 02:05, so 03:05 local is first
\* shown at 02:05 UTC.
C2_StoresWinterInstant ==
  (call.op = "scheduleNextNightlySync" /\ call.from = 1729989000)
    => /\ nextNtpSyncEpoch = 1729994700
       /\ ~isDstEurope(1729991100)
       /\ getDisplayTime(1729991100) = 1729991100 + 3600

\* C2 witness: the call of the scenario has been made
C2_Witness ==
  /\ call.op = "scheduleNextNightlySync"
  /\ call.from = 1729989000
  /\ call.from = mktime_days(2024, 10, 27) * 86400 + 1800
  /\ nextNtpSyncEpoch = mktime_days(2024, 10, 27) * 86400 + 2 * 3600 + 300

\* C3: every call of scheduleNextNightlySync(fromUtc) stores an instant
\* strictly greater than fromUtc, and a second call with the same fromUtc,
\* made over the schedule the first one stored, stores the same instant.
C3_GreaterAndRepeatable ==
  [][ call'.op = "scheduleNextNightlySync" =>
        /\ nextNtpSyncEpoch' > call'.from
        /\ (call.op = "scheduleNextNightlySync"
              => (call'.from = call.from /\ nextNtpSyncEpoch' = nextNtpSyncEpoch))
    ]_vars

\* C3 witness: a call made over a stored schedule that was neither unset
\* nor the one the call stores, from an instant that is a whole minute
C3_Witness ==
  /\ call.op = "scheduleNextNightlySync"
  /\ call.prior # 0
  /\ call.prior # nextNtpSyncEpoch
  /\ call.from % 60 = 0
  /\ nextNtpSyncEpoch > call.from

\* C4: the instant scheduleNextNightlySync(fromUtc) stores is a whole
\* minute whose display time is 03:05:00, and no whole minute from the
\* scan's start up to it has display time 03:05:00.
C4_FirstNightlyMinute ==
  call.op = "scheduleNextNightlySync" =>
    /\ nextNtpSyncEpoch % 60 = 0
    /\ nextNtpSyncEpoch > call.from
    /\ tm_hour(getDisplayTime(nextNtpSyncEpoch)) = 3
    /\ tm_min(getDisplayTime(nextNtpSyncEpoch)) = 5
    /\ tm_sec(getDisplayTime(nextNtpSyncEpoch)) = 0
    /\ \A m \in 1..((nextNtpSyncEpoch - call.from) \div 60) :
         (call.from - (call.from % 60) + 60 * m < nextNtpSyncEpoch)
           => ~( /\ tm_hour(getDisplayTime(call.from - (call.from % 60) + 60 * m)) = 3
                 /\ tm_min(getDisplayTime(call.from - (call.from % 60) + 60 * m)) = 5 )

\* C4 witness: a scan that crossed the October clock change, where the
\* display time 02:05 is shown twice before 03:05 is
C4_Witness ==
  /\ call.op = "scheduleNextNightlySync"
  /\ isDstEurope(call.from)
  /\ ~isDstEurope(nextNtpSyncEpoch)
  /\ nextNtpSyncEpoch - call.from > 24 * 3600

\* C20: the scan of scheduleNextNightlySync(fromUtc) finds a candidate
\* displayed as 03:05:00 before its 2880 candidates run out, for every
\* fromUtc, so the value stored is that candidate and the fallback after the
\* loop is not executed.
C20_ScanNeverExhausted ==
  call.op = "scheduleNextNightlySync" =>
    /\ ScanLoop(ScanStart(call.from)) < maxMinutes
    /\ ScanLoop(ScanStart(call.from)) < 2880
    /\ NightlyMatch(ScanStart(call.from) + 60 * ScanLoop(ScanStart(call.from)))
    /\ nextNtpSyncEpoch
         = ScanStart(call.from) + 60 * ScanLoop(ScanStart(call.from))

\* C20: a scan over the day of 25 hours, which takes more than a day's
\* candidates and still ends inside the loop
C20_Witness ==
  /\ call.op = "scheduleNextNightlySync"
  /\ ScanLoop(ScanStart(call.from)) >= 24 * 60
  /\ ScanLoop(ScanStart(call.from)) < maxMinutes
  /\ nextNtpSyncEpoch # call.from + 24 * 3600

\* C22 as stated: the first candidate of scheduleNextNightlySync(fromUtc)
\* is fromUtc when fromUtc is a multiple of 60 seconds, and the next
\* multiple of 60 above fromUtc otherwise.
C22_StartsAtOrAfter ==
  call.op = "scheduleNextNightlySync" =>
    ScanStart(call.from) = IF call.from % 60 = 0 THEN call.from
                           ELSE ((call.from \div 60) + 1) * 60

\* C22 amended: the first candidate is the first multiple of 60 seconds
\* strictly above fromUtc, which is fromUtc + 60 when fromUtc is itself a
\* multiple of 60; so a call from an instant displayed as 03:05:00 stores a
\* later instant, never fromUtc.
C22_StartsAfter ==
  call.op = "scheduleNextNightlySync" =>
    /\ ScanStart(call.from) = ((call.from \div 60) + 1) * 60
    /\ ScanStart(call.from) > call.from
    /\ ScanStart(call.from) - call.from <= 60
    /\ call.from % 60 = 0 => ScanStart(call.from) = call.from + 60
    /\ nextNtpSyncEpoch >= ScanStart(call.from)
    /\ nextNtpSyncEpoch # call.from

\* C22: a call from a whole minute that is itself displayed as 03:05:00
C22_Witness ==
  /\ call.op = "scheduleNextNightlySync"
  /\ call.from % 60 = 0
  /\ tm_hour(getDisplayTime(call.from)) = 3
  /\ tm_min(getDisplayTime(call.from)) = 5
  /\ ScanStart(call.from) = call.from + 60
  /\ nextNtpSyncEpoch > call.from + 60

\* fromUtc is displayed as 03:05:00
AtNightlyTime(utc) ==
  /\ tm_hour(getDisplayTime(utc)) = 3
  /\ tm_min(getDisplayTime(utc)) = 5
  /\ tm_sec(getDisplayTime(utc)) = 0

\* C26: the instant scheduleNextNightlySync(fromUtc) stores is later than
\* fromUtc by at most 25 hours; from an instant displayed as 03:05:00 it is
\* later by exactly 23, 24 or 25 hours: by 23 when summer time begins in
\* between, by 25 when it ends in between, by 24 otherwise.
C26_NightlyOncePerDay ==
  call.op = "scheduleNextNightlySync" =>
    /\ nextNtpSyncEpoch - call.from > 0
    /\ nextNtpSyncEpoch - call.from <= 25 * 3600
    /\ AtNightlyTime(call.from) =>
         /\ nextNtpSyncEpoch - call.from \in { 23 * 3600, 24 * 3600, 25 * 3600 }
         /\ nextNtpSyncEpoch - call.from = 23 * 3600
              <=> (~isDstEurope(call.from) /\ isDstEurope(nextNtpSyncEpoch))
         /\ nextNtpSyncEpoch - call.from = 25 * 3600
              <=> (isDstEurope(call.from) /\ ~isDstEurope(nextNtpSyncEpoch))

\* C26: the call at 03:05:00 of the night before summer time begins
\* (2024-03-30T02:05:00 UTC), which stores the instant 23 hours later
C26_Witness ==
  /\ call.op = "scheduleNextNightlySync"
  /\ call.from = mktime_days(2024, 3, 30) * 86400 + 2 * 3600 + 300
  /\ AtNightlyTime(call.from)
  /\ nextNtpSyncEpoch = call.from + 23 * 3600

\* C8: when shouldStartNightlySync(nowUtc) returns true, a schedule was
\* stored and overdue, the schedule it leaves is strictly greater than
\* nowUtc and is the one scheduleNextNightlySync(nowUtc) stores; a call
\* that directly follows another with the same nowUtc returns false.
C8_DueOnce ==
  [][ /\ (call'.op = "shouldStartNightlySync" /\ call'.ret)
          => /\ call'.prior # 0
             /\ call'.from >= call'.prior
             /\ nextNtpSyncEpoch' > call'.from
      /\ (call.op = "shouldStartNightlySync" /\ call'.op = "shouldStartNightlySync")
          => (call'.from = call.from /\ ~call'.ret)
      /\ (call.op = "shouldStartNightlySync" /\ call.ret
            /\ call'.op = "scheduleNextNightlySync")
          => nextNtpSyncEpoch' = nextNtpSyncEpoch
    ]_vars

\* C8 witness: due is reported after a stall of more than two days, over
\* a schedule that two further nightly instants have followed
C8_Witness ==
  /\ call.op = "shouldStartNightlySync"
  /\ call.ret
  /\ call.from > call.prior + 2 * 24 * 3600
  /\ nextNtpSyncEpoch > call.from

-----------------------------------------------------------------------------
(* Claims about loop() (Spec) *)

\* the render interval had elapsed when the latest cycle began
IntervalElapsed ==
  Ge32(Sub32(cyc.nowMs, cyc.lastRender), << 0, 20 >>)

\* C5 as stated: once the internal clock is set, no value returned by
\* getCurrentRtcTime is smaller than the value returned before it, across
\* cycles, tick wrap and resyncs.
C5_NeverDecreases ==
  (cyc.rtcCalled /\ cyc.rtcPrev # 0) => cyc.rtcNow >= cyc.rtcPrev

\* C5 amended: a cycle that absorbs a reading sets the clock to that
\* reading, whether it is later or earlier than the clock's value; in every
\* other cycle getCurrentRtcTime returns at least the value it returned
\* before, tick wrap included, as long as less than 2^32 ms have gone by
\* since the reading was absorbed.
C5_NonDecreasingBetweenResyncs ==
  /\ cyc.branch = "absorbed"
       => (cyc.rtcCalled /\ cyc.rtcNow = sysTime /\ rtcBaseTime = sysTime
             /\ rtcBaseMillis = cyc.nowMs)
  /\ (cyc.rtcCalled /\ cyc.rtcPrev # 0 /\ cyc.branch # "absorbed" /\ ~cyc.lapsed)
       => cyc.rtcNow >= cyc.rtcPrev

\* C5 witness: the clock has advanced between two readings across the wrap
\* of the tick counter
C5_Witness ==
  /\ cyc.phase = "STATE_SHOW_CLOCK"
  /\ cyc.rtcCalled
  /\ ~cyc.lapsed
  /\ Gt32(rtcBaseMillis, millis)
  /\ cyc.rtcPrev # 0
  /\ cyc.rtcNow > cyc.rtcPrev

\* C6 as stated: in a cycle where superviseWiFi sees the connection absent,
\* the absence having first been seen at tick t0, the forced transition is
\* signaled exactly when (nowMs - t0) > 60000.
C6_ForcedAfterSixtySeconds ==
  (cyc.supervised /\ ~cyc.connected)
    => (cyc.forced <=> Gt32(Sub32(cyc.nowMs, cyc.t0), << 0, 60000 >>))

\* C6, the failing case: absent since tick 0, still absent at tick 60001,
\* and no forced transition
C6_Witness ==
  /\ cyc.supervised
  /\ ~cyc.connected
  /\ cyc.t0 = << 0, 0 >>
  /\ cyc.nowMs = << 0, 60001 >>
  /\ ~cyc.forced
  /\ myState # "STATE_WIFI_CONFIG"

\* C7 as stated: after a call of superviseWiFi that sees the connection
\* absent and forces no reset, wifiLostSinceMs is the tick t0 at which the
\* absence was first seen.
C7_AbsentSinceKept ==
  (cyc.supervised /\ ~cyc.connected /\ ~cyc.forced)
    => wifiLostSinceMs = cyc.t0

\* C7, the failing case: the absence was first seen at tick 0 and the call
\* at tick 59999 records 59999
C7_Witness ==
  /\ cyc.supervised
  /\ ~cyc.connected
  /\ ~cyc.forced
  /\ cyc.t0 = << 0, 0 >>
  /\ cyc.nowMs = << 0, 59999 >>
  /\ wifiLostSinceMs = << 0, 59999 >>

\* C9 as stated: in every cycle of every state that begins with a clock
\* reference and with the render interval elapsed, the time is rendered.
C9_RenderedInEveryPhase ==
  (cyc.phase # "none" /\ cyc.hadRef /\ IntervalElapsed)
    => (cyc.rendered /\ strip = "clock")

\* C9 amended: a cycle in STATE_SHOW_CLOCK with the render interval elapsed
\* recomputes hour, minute and second from getCurrentRtcTime and renders
\* them; a cycle in STATE_WIFI_CONFIG shows the static rainbow instead and
\* a cycle in STATE_WAIT_FOR_TIME leaves the strip as it was, neither
\* renders the time; no cycle drops the clock reference.
C9_RenderedOnlyInShowClock ==
  /\ (cyc.phase = "STATE_SHOW_CLOCK" /\ IntervalElapsed)
       => /\ cyc.rendered
          /\ strip = "clock"
          /\ lastRenderMillis = cyc.nowMs
          /\ t_hour = tm_hour(getDisplayTime(cyc.rtcNow))
          /\ t_min = tm_min(getDisplayTime(cyc.rtcNow))
          /\ t_sec = tm_sec(getDisplayTime(cyc.rtcNow))
  /\ (cyc.phase = "STATE_SHOW_CLOCK" /\ ~IntervalElapsed)
       => (~cyc.rendered /\ strip = cyc.stripBefore)
  /\ cyc.phase = "STATE_WIFI_CONFIG" => (~cyc.rendered /\ strip = "rainbow")
  /\ cyc.phase = "STATE_WAIT_FOR_TIME"
       => (~cyc.rendered /\ strip = cyc.stripBefore)
  /\ cyc.hadRef => rtcBaseTime # 0

\* C9 witness: a cycle in STATE_WIFI_CONFIG, begun with a clock reference
\* and the time on the strip, has put the rainbow there
C9_Witness ==
  /\ cyc.phase = "STATE_WIFI_CONFIG"
  /\ cyc.hadRef
  /\ IntervalElapsed
  /\ cyc.stripBefore = "clock"
  /\ strip = "rainbow"
  /\ ~cyc.rendered

\* C10 as stated: every cycle in STATE_WAIT_FOR_TIME calls superviseWiFi.
C10_SupervisedInEveryBranch ==
  cyc.phase = "STATE_WAIT_FOR_TIME" => cyc.supervised

\* C10 amended: a cycle in STATE_WAIT_FOR_TIME calls superviseWiFi exactly
\* when it absorbs the reading or keeps waiting; on timeout and on a
\* rejected reading it leaves for STATE_WIFI_CONFIG, the request closed,
\* without the call.
C10_SupervisedUnlessLeaving ==
  cyc.phase = "STATE_WAIT_FOR_TIME" =>
    /\ cyc.branch \in { "timeout", "rejected", "absorbed", "waiting" }
    /\ cyc.supervised <=> cyc.branch \in { "absorbed", "waiting" }
    /\ cyc.branch \in { "timeout", "rejected" }
         => (myState = "STATE_WIFI_CONFIG" /\ ~ntpSyncInProgress /\ ~cyc.forced)

\* C10 witness: a timed-out cycle, the connection absent, has left for
\* STATE_WIFI_CONFIG without the supervisor's call
C10_Witness ==
  /\ cyc.phase = "STATE_WAIT_FOR_TIME"
  /\ cyc.branch = "timeout"
  /\ ~cyc.connected
  /\ ~cyc.supervised
  /\ myState = "STATE_WIFI_CONFIG"

\* C11 as stated: a cycle in STATE_WAIT_FOR_TIME absorbs a reading only
\* when the fetch that the latest startNtp() requested has delivered.
C11_AbsorbedAfterFetch ==
  cyc.branch = "absorbed" => fetchDone

\* C11, the failing case: a clock reference existed, a new request was
\* made, no fetch has delivered since, and the cycle has replaced the
\* reference with the system clock's own time
C11_Witness ==
  /\ cyc.branch = "absorbed"
  /\ cyc.hadRef
  /\ ~fetchDone
  /\ rtcBaseTime = sysTime
  /\ rtcBaseMillis = cyc.nowMs
  /\ myState = "STATE_SHOW_CLOCK"

-----------------------------------------------------------------------------
(* Claims about getCurrentRtcTime() (SpecClock) *)

\* the whole seconds in arg[1] + arg[2] milliseconds
ElapsedSeconds ==
  (arg[1] \div 1000) + (arg[2] \div 1000)
    + (((arg[1] % 1000) + (arg[2] % 1000)) \div 1000)

\* C12: with a reference (rtcBaseTime, rtcBaseMillis) and fewer than 2^32
\* milliseconds gone by since the reference tick, getCurrentRtcTime returns
\* rtcBaseTime plus the whole seconds gone by, whether or not the tick
\* counter has wrapped; reference (1700000000, 1000) read at tick 61000
\* gives 1700000060.
C12_WraparoundSafe ==
  call.op = "getCurrentRtcTime" =>
    /\ call.ret = rtcBaseTime + ElapsedSeconds
    /\ ( rtcBaseTime = 1700000000 /\ rtcBaseMillis = U32(1000)
           /\ millis = U32(61000) ) => call.ret = 1700000060

\* C12: a read at tick 59999, 60000 ms after a reference taken at tick
\* 2^32 - 1
C12_Witness ==
  /\ call.op = "getCurrentRtcTime"
  /\ rtcBaseTime = 1700000000
  /\ rtcBaseMillis = << 65535, 65535 >>
  /\ millis = U32(59999)
  /\ call.ret = 1700000060

\* C15: a cycle in STATE_WAIT_FOR_TIME that finds more than 20000 ms gone
\* by (modulo 2^32) since the latest time request ends in
\* STATE_WIFI_CONFIG by the timeout and absorbs no reading: the reference
\* pair and the schedule stay as they were, whatever the system clock holds.
C15_TimeoutWins ==
  [][ ( myState = "STATE_WAIT_FOR_TIME"
          /\ Gt32(Sub32(millis', ntpSyncStartMs), U32(20000)) )
        => /\ myState' = "STATE_WIFI_CONFIG"
           /\ cyc'.branch = "timeout"
           /\ ~ntpSyncInProgress'
           /\ rtcBaseTime' = rtcBaseTime
           /\ rtcBaseMillis' = rtcBaseMillis
           /\ nextNtpSyncEpoch' = nextNtpSyncEpoch ]_vars

\* C15: a wait has timed out although the system clock held a valid time
C15_Witness ==
  /\ cyc.phase = "STATE_WAIT_FOR_TIME"
  /\ cyc.branch = "timeout"
  /\ Gt32(Sub32(cyc.nowMs, ntpSyncStartMs), U32(20000))
  /\ isTimeValid(sysTime)
  /\ myState = "STATE_WIFI_CONFIG"

\* C16: when syncRtcFromSystemTime() sees a system time below 1451606400
\* it returns false and leaves rtcBaseTime, rtcBaseMillis and
\* nextNtpSyncEpoch as they were, and the cycle ends in STATE_WIFI_CONFIG.
C16_RejectedChangesNothing ==
  [][ cyc'.branch = "rejected"
        => /\ sysTime' < 1451606400
           /\ ~syncRtcFromSystemTime(sysTime', millis').ok
           /\ rtcBaseTime' = rtcBaseTime
           /\ rtcBaseMillis' = rtcBaseMillis
           /\ nextNtpSyncEpoch' = nextNtpSyncEpoch
           /\ myState' = "STATE_WIFI_CONFIG" ]_vars

\* C16: a reading was rejected while a reference pair and a schedule were
\* in place, and they are still there
C16_Witness ==
  /\ cyc.branch = "rejected"
  /\ sysTime < 1451606400
  /\ rtcBaseTime >= 1451606400
  /\ nextNtpSyncEpoch > rtcBaseTime
  /\ myState = "STATE_WIFI_CONFIG"

\* the cycle has left rtcBaseTime, rtcBaseMillis and nextNtpSyncEpoch alone
ClockStateKept ==
  /\ rtcBaseTime' = rtcBaseTime
  /\ rtcBaseMillis' = rtcBaseMillis
  /\ nextNtpSyncEpoch' = nextNtpSyncEpoch

\* C17: the cycles that enter STATE_WIFI_CONFIG by the timeout, by a
\* rejected reading or by the supervisor's reset while waiting, and the
\* STATE_WIFI_CONFIG step itself, leave rtcBaseTime, rtcBaseMillis and
\* nextNtpSyncEpoch unchanged.  The reference pair changes only where
\* syncRtcFromSystemTime() succeeds, both halves together (the reading and
\* the tick of that cycle), and nextNtpSyncEpoch changes only to what
\* scheduleNextNightlySync computes, from the absorbed reading or from the
\* clock reading of a cycle in STATE_SHOW_CLOCK.
C17_ClockStateFrame ==
  [][ /\ cyc'.branch \in { "config", "timeout", "rejected" } => ClockStateKept
      /\ (cyc'.branch = "waiting" /\ cyc'.forced) => ClockStateKept
      /\ (rtcBaseTime' # rtcBaseTime \/ rtcBaseMillis' # rtcBaseMillis)
           => cyc'.branch = "absorbed"
      /\ cyc'.branch = "absorbed"
           => rtcBaseTime' = sysTime' /\ rtcBaseMillis' = millis'
      /\ nextNtpSyncEpoch' # nextNtpSyncEpoch
           => \/ /\ cyc'.branch = "absorbed"
                 /\ nextNtpSyncEpoch' = scheduleNextNightlySync(sysTime')
              \/ /\ cyc'.branch = "show"
                 /\ nextNtpSyncEpoch' = scheduleNextNightlySync(cyc'.rtcNow)
    ]_vars

\* C17: the supervisor has forced the reset from STATE_WAIT_FOR_TIME while a
\* reference pair and a schedule were in place
C17_Witness ==
  /\ cyc.branch = "waiting"
  /\ cyc.forced
  /\ myState = "STATE_WIFI_CONFIG"
  /\ rtcBaseTime # 0
  /\ nextNtpSyncEpoch # 0

\* C18: myState starts as STATE_WIFI_CONFIG.  A cycle in STATE_WIFI_CONFIG
\* always ends in STATE_WAIT_FOR_TIME, never in STATE_SHOW_CLOCK.
\* STATE_SHOW_CLOCK is entered only from STATE_WAIT_FOR_TIME, in a cycle
\* that absorbed a valid reading.  The other changes of myState are
\* STATE_WAIT_FOR_TIME to STATE_WIFI_CONFIG and STATE_SHOW_CLOCK to
\* STATE_WAIT_FOR_TIME or STATE_WIFI_CONFIG.
C18_PhaseTransitions ==
  /\ myState = "STATE_WIFI_CONFIG"
  /\ [][ /\ myState = "STATE_WIFI_CONFIG" => myState' = "STATE_WAIT_FOR_TIME"
         /\ (myState' = "STATE_SHOW_CLOCK" /\ myState # "STATE_SHOW_CLOCK")
              => /\ myState = "STATE_WAIT_FOR_TIME"
                 /\ cyc'.branch = "absorbed"
                 /\ sysTime' >= 1451606400
                 /\ rtcBaseTime' = sysTime'
         /\ << myState, myState' >> \in
              { << "STATE_WIFI_CONFIG", "STATE_WAIT_FOR_TIME" >>,
                << "STATE_WAIT_FOR_TIME", "STATE_WAIT_FOR_TIME" >>,
                << "STATE_WAIT_FOR_TIME", "STATE_SHOW_CLOCK" >>,
                << "STATE_WAIT_FOR_TIME", "STATE_WIFI_CONFIG" >>,
                << "STATE_SHOW_CLOCK", "STATE_SHOW_CLOCK" >>,
                << "STATE_SHOW_CLOCK", "STATE_WAIT_FOR_TIME" >>,
                << "STATE_SHOW_CLOCK", "STATE_WIFI_CONFIG" >> }
       ]_vars

\* C18: the first two cycles have gone from STATE_WIFI_CONFIG through
\* STATE_WAIT_FOR_TIME, where a valid reading was absorbed, to
\* STATE_SHOW_CLOCK
C18_Witness ==
  /\ cyc.n = 2
  /\ cyc.phase = "STATE_WAIT_FOR_TIME"
  /\ cyc.branch = "absorbed"
  /\ myState = "STATE_SHOW_CLOCK"
  /\ rtcBaseTime >= 1451606400

\* C19: at the end of a cycle whose syncRtcFromSystemTime() succeeded,
\* nextNtpSyncEpoch is the schedule computed from the absorbed reading, an
\* instant after rtcBaseTime that is displayed as 03:05:00; and once
\* nextNtpSyncEpoch is not 0 it never is 0 again.
C19_ScheduledAfterSync ==
  [][ /\ cyc'.branch = "absorbed"
           => /\ rtcBaseTime' = sysTime'
              /\ nextNtpSyncEpoch' = scheduleNextNightlySync(sysTime')
              /\ nextNtpSyncEpoch' > rtcBaseTime'
              /\ tm_hour(getDisplayTime(nextNtpSyncEpoch')) = 3
              /\ tm_min(getDisplayTime(nextNtpSyncEpoch')) = 5
              /\ tm_sec(getDisplayTime(nextNtpSyncEpoch')) = 0
      /\ nextNtpSyncEpoch # 0 => nextNtpSyncEpoch' # 0
    ]_vars

\* C19: a resync has absorbed a reading after the nightly instant had been
\* moved on by a day, and the schedule is again the one of the reading
C19_Witness ==
  /\ cyc.branch = "absorbed"
  /\ cyc.hadRef
  /\ cyc.rtcPrev >= 1729994700
  /\ nextNtpSyncEpoch = scheduleNextNightlySync(rtcBaseTime)
  /\ nextNtpSyncEpoch = 1729994700
  /\ rtcBaseTime = 1729994700 - 90

-----------------------------------------------------------------------------
(* Claims about renderBerlinClock() (SpecRender) *)

\* the lamps of the row first..last that are lit
LitIn(first, last) == { idx \in first..last : call.ret[idx] # << 0, 0, 0 >> }

\* the lit lamps of the row are its first ones
IsPrefix(first, last) ==
  \A idx \in (first + 1)..last : idx \in LitIn(first, last) => (idx - 1) \in LitIn(first, last)

\* C21: for every hour in 0..23 and minute in 0..59, renderBerlinClock
\* lights hour div 5 lamps of the row 19..22, hour mod 5 lamps of the row
\* 15..18, minute div 5 lamps of the row 4..14 and minute mod 5 lamps of the
\* row 0..3, in each row the first ones, so that five times the 5-unit
\* lamps plus the 1-unit lamps is the hour and the minute; the four rows
\* are the same whatever the second and the tick of the call.
C21_LampMapping ==
  call.op = "renderBerlinClock" =>
    /\ Cardinality(LitIn(19, 22)) = t_hour \div 5
    /\ Cardinality(LitIn(15, 18)) = t_hour % 5
    /\ Cardinality(LitIn(4, 14)) = t_min \div 5
    /\ Cardinality(LitIn(0, 3)) = t_min % 5
    /\ IsPrefix(19, 22) /\ IsPrefix(15, 18) /\ IsPrefix(4, 14) /\ IsPrefix(0, 3)
    /\ 5 * Cardinality(LitIn(19, 22)) + Cardinality(LitIn(15, 18)) = t_hour
    /\ 5 * Cardinality(LitIn(4, 14)) + Cardinality(LitIn(0, 3)) = t_min
    /\ \A idx \in 0..22 :
         call.ret[idx] = renderBerlinClock(U32(0), t_hour, t_min)[idx]

\* C21: 23:59 is on the strip, with every lamp of the hour rows and of the
\* minute rows lit but the fourth of the 1-hour row, in the middle of a
\* second
C21_Witness ==
  /\ call.op = "renderBerlinClock"
  /\ t_hour = 23 /\ t_min = 59 /\ t_sec = 59
  /\ millis = U32(1500)
  /\ LitIn(0, 22) = (0..22) \ { 18 }
  /\ call.ret[6] = << 255, 255, 0 >>
  /\ call.ret[23] = << 255, 255, 255 >>

\* C23: every cycle that enters STATE_WAIT_FOR_TIME has made a time
\* request, set ntpSyncInProgress and set ntpSyncStartMs to the tick of the
\* cycle: the cycle of STATE_WIFI_CONFIG always, the cycle of
\* STATE_SHOW_CLOCK when shouldStartNightlySync returned true, and only then
\* does STATE_SHOW_CLOCK go to STATE_WAIT_FOR_TIME.  So the wait's timeout
\* is taken only with more than 20000 ms gone by since the tick of the
\* latest request.
C23_RequestTickRecorded ==
  [][ /\ (myState # "STATE_WAIT_FOR_TIME" /\ myState' = "STATE_WAIT_FOR_TIME")
           => /\ ntpSyncInProgress'
              /\ ntpSyncStartMs' = millis'
              /\ ~fetchDone'
              /\ myState = "STATE_SHOW_CLOCK" => cyc'.due
      /\ (cyc'.branch = "config" \/ cyc'.due)
           => /\ ntpSyncInProgress'
              /\ ntpSyncStartMs' = millis'
      /\ (cyc'.branch = "show" /\ ~cyc'.due)
           => /\ myState' # "STATE_WAIT_FOR_TIME"
              /\ ntpSyncStartMs' = ntpSyncStartMs
      /\ cyc'.phase = "STATE_WAIT_FOR_TIME" => ntpSyncStartMs' = ntpSyncStartMs
      /\ cyc'.branch = "timeout"
           => Gt32(Sub32(millis', ntpSyncStartMs), U32(20000))
    ]_vars

\* C23: a cycle of STATE_SHOW_CLOCK has found the resync due and entered
\* STATE_WAIT_FOR_TIME with the start tick moved to the tick of the cycle
C23_Witness ==
  /\ cyc.phase = "STATE_SHOW_CLOCK"
  /\ cyc.due
  /\ myState = "STATE_WAIT_FOR_TIME"
  /\ ntpSyncInProgress
  /\ ntpSyncStartMs = cyc.nowMs
  /\ ntpSyncStartMs = millis

\* C25: when a cycle of STATE_WAIT_FOR_TIME absorbs a valid reading, or a
\* cycle of STATE_SHOW_CLOCK starts a due resync, and superviseWiFi then
\* finds the connection absent for more than 60000 ms, the cycle ends in
\* STATE_WIFI_CONFIG, not in STATE_SHOW_CLOCK or STATE_WAIT_FOR_TIME, and
\* the reference pair and the schedule written in the cycle stay written.
C25_ResetSupersedes ==
  [][ /\ cyc'.forced
           => /\ ~cyc'.connected
              /\ Gt32(Sub32(millis', LostSince(millis', wifiLostSinceMs)),
                      U32(60000))
              /\ myState' = "STATE_WIFI_CONFIG"
      /\ (cyc'.branch = "absorbed" /\ cyc'.forced)
           => /\ rtcBaseTime' = sysTime'
              /\ rtcBaseMillis' = millis'
              /\ nextNtpSyncEpoch' = scheduleNextNightlySync(sysTime')
      /\ (cyc'.due /\ cyc'.forced)
           => /\ nextNtpSyncEpoch' = scheduleNextNightlySync(cyc'.rtcNow)
              /\ nextNtpSyncEpoch' > cyc'.rtcNow
              /\ ntpSyncInProgress'
              /\ ntpSyncStartMs' = millis'
              /\ rtcBaseTime' = rtcBaseTime
              /\ rtcBaseMillis' = rtcBaseMillis
      /\ ( cyc'.branch \in { "absorbed", "show" } /\ ~cyc'.connected
             /\ Gt32(Sub32(millis', LostSince(millis', wifiLostSinceMs)),
                     U32(60000)) )
           => cyc'.forced
    ]_vars

\* C25: a cycle has absorbed a reading over an earlier reference and has
\* then been reset by the supervisor
C25_Witness ==
  /\ cyc.branch = "absorbed"
  /\ cyc.forced
  /\ cyc.hadRef
  /\ myState = "STATE_WIFI_CONFIG"
  /\ rtcBaseTime = sysTime
  /\ rtcBaseMillis = cyc.nowMs
  /\ nextNtpSyncEpoch > rtcBaseTime

\* C27: at the start of every loop() cycle, myState = STATE_WAIT_FOR_TIME
\* implies ntpSyncInProgress, so the timeout test of line 351 is never
\* switched off while the program waits for the time.
C27_WaitAlwaysArmed ==
  myState = "STATE_WAIT_FOR_TIME" => ntpSyncInProgress

\* C27: a due resync has put the program back into STATE_WAIT_FOR_TIME after
\* an earlier absorbed reading had cleared ntpSyncInProgress
C27_Witness ==
  /\ myState = "STATE_WAIT_FOR_TIME"
  /\ cyc.phase = "STATE_SHOW_CLOCK"
  /\ cyc.due
  /\ rtcBaseTime # 0
  /\ ntpSyncInProgress

-----------------------------------------------------------------------------
(* Claims about loop() running on (SpecLive) *)

\* the latest cycle ran in STATE_WAIT_FOR_TIME or STATE_SHOW_CLOCK, saw the
\* connection absent and left myState in one of the two
OutageSeen ==
  /\ cyc.phase \in { "STATE_WAIT_FOR_TIME", "STATE_SHOW_CLOCK" }
  /\ ~cyc.connected
  /\ myState \in { "STATE_WAIT_FOR_TIME", "STATE_SHOW_CLOCK" }

\* the behaviour has run its MaxCycles cycles before the tick counter came
\* to more than 60000 ms past a recorded start of the absence
HorizonShort ==
  /\ cyc.n = MaxCycles
  /\ \/ wifiLostSinceMs = U32(0)
     \/ ~Gt32(Sub32(millis, wifiLostSinceMs), U32(60000))

=============================================================================
